---- MODULE Spec2Model ----
(***************************************************************************)
(* A model of the 6502 CPU core of src/main.rs: the register file, the     *)
(* memory array, the program loader, reset, and the fetch/decode/execute   *)
(* loop of CPU::run, one loop iteration per step.                          *)
(*                                                                         *)
(* Memory is the array `memory: [u8; 0xFFFF]`, zero-initialised.  It is    *)
(* represented by the function from the addresses of its non-zero cells to *)
(* their values; every other index below MemorySize reads 0.  Two memories *)
(* are equal exactly when their representations are equal.                 *)
(*                                                                         *)
(* A Rust panic ends the program: phase becomes "Panicked" and `panic`     *)
(* names the failure.  Integer overflow of the plain u8/u16 operators      *)
(* panics when the build has overflow checks (the dev/test profile) and    *)
(* wraps when it has not (the release profile); overflow_checks is the     *)
(* profile the program was built with.                                     *)
(***************************************************************************)
EXTENDS Integers, Sequences, FiniteSets, TLC

VARIABLES
    register_a,       \* CPU.register_a  (Wrapping<u8>)
    register_x,       \* CPU.register_x  (Wrapping<u8>)
    register_y,       \* CPU.register_y  (Wrapping<u8>)
    status,           \* CPU.status      (u8)
    program_counter,  \* CPU.program_counter (u16)
    stack_pointer,    \* CPU.stack_pointer   (u8)
    memory,           \* CPU.memory, non-zero cells only
    phase,            \* "Idle" | "Running" | "Halted" | "Panicked"
    panic,            \* "none" or the panic that ended the program
    overflow_checks,  \* TRUE: arithmetic overflow panics; FALSE: it wraps
    fetched,          \* history: the instruction fetched by the last loop iteration
    called,           \* history: the last call of the host, and its argument
    loads,            \* number of load() calls made by the host
    calls             \* number of host calls of any kind

vars == <<register_a, register_x, register_y, status, program_counter,
          stack_pointer, memory, phase, panic, overflow_checks, fetched,
          called, loads, calls>>

-----------------------------------------------------------------------------
(* Bounds of the exploration *)

MaxLoads == 1
MaxCalls == 4

-----------------------------------------------------------------------------
(* Program constants *)

MemorySize == 65535
ProgramOrigin == 32768
ResetVector == 65532
StackPointerInit == 255

U8 == 256
U16 == 65536

-----------------------------------------------------------------------------
(* Bit arithmetic on bytes *)

Bit(n, k) == (n \div (2 ^ k)) % 2

SetBit(n, k) == IF Bit(n, k) = 1 THEN n ELSE n + 2 ^ k

ClearBit(n, k) == IF Bit(n, k) = 1 THEN n - 2 ^ k ELSE n

LoByte(w) == w % 256

HiByte(w) == (w \div 256) % 256

Word(hi, lo) == hi * 256 + lo

-----------------------------------------------------------------------------
(* The memory array *)

ZeroMemory == [a \in {} |-> 0]

InBounds(addr) == addr >= 0 /\ addr < MemorySize

Cell(mem, addr) == IF addr \in DOMAIN mem THEN mem[addr] ELSE 0

Store(mem, addr, data) ==
    IF data = 0
    THEN [a \in DOMAIN mem \ {addr} |-> mem[a]]
    ELSE [a \in DOMAIN mem \cup {addr} |-> IF a = addr THEN data ELSE mem[a]]

-----------------------------------------------------------------------------
(* The CPU as a value: every method below is a function from the CPU before *)
(* the call to the CPU after it.  A method that returns a value leaves it   *)
(* in the field ret.  A panic is recorded in the field panic, and Then      *)
(* skips whatever would have followed it.                                   *)

CpuNow ==
    [a |-> register_a, x |-> register_x, y |-> register_y, status |-> status,
     pc |-> program_counter, sp |-> stack_pointer, mem |-> memory,
     panic |-> panic, halted |-> FALSE, checks |-> overflow_checks, ret |-> 0]

Panic(c, msg) == [c EXCEPT !.panic = msg]

Ok(c) == c.panic = "none"

Return(c, v) == [c EXCEPT !.ret = v]

\* statement sequencing: `first; F(the CPU after first)`, unless first panicked
Then(c, F(_)) == IF Ok(c) THEN F(c) ELSE c

\* the value n of a plain `+`, `-` or `+=` on an unsigned integer type of the
\* given modulus: out of range, it panics under overflow checks and wraps
\* without them
CheckedArith(c, n, modulus, what) ==
    IF n >= 0 /\ n < modulus THEN Return(c, n)
    ELSE IF c.checks THEN Panic(c, what)
    ELSE Return(c, n % modulus)

mem_read(c, addr) ==
    IF InBounds(addr) THEN Return(c, Cell(c.mem, addr))
    ELSE Panic(c, "index out of bounds")

mem_write(c, addr, data) ==
    IF InBounds(addr) THEN [c EXCEPT !.mem = Store(c.mem, addr, data)]
    ELSE Panic(c, "index out of bounds")

mem_read_u16(c, pos) ==
    Then(mem_read(c, pos), LAMBDA lo :
    Then(CheckedArith(lo, pos + 1, U16, "attempt to add with overflow"), LAMBDA nxt :
    Then(mem_read(nxt, nxt.ret), LAMBDA hi :
    Return(hi, Word(hi.ret, lo.ret)))))

mem_write_u16(c, pos, data) ==
    Then(mem_write(c, pos, LoByte(data)), LAMBDA c1 :
    Then(CheckedArith(c1, pos + 1, U16, "attempt to add with overflow"), LAMBDA nxt :
    mem_write(nxt, nxt.ret, HiByte(data))))

stack_push(c, byte) ==
    Then(mem_write(c, c.sp, byte), LAMBDA c1 :
    Then(CheckedArith(c1, c1.sp - 1, U8, "attempt to subtract with overflow"), LAMBDA dec :
    [dec EXCEPT !.sp = dec.ret]))

stack_pop(c) ==
    Then(mem_read(c, c.sp), LAMBDA val :
    Then(CheckedArith(val, val.sp + 1, U8, "attempt to add with overflow"), LAMBDA inc :
    Return([inc EXCEPT !.sp = inc.ret], val.ret)))

-----------------------------------------------------------------------------
(* Status flags *)

ZeroFlag(st) == Bit(st, 1) = 1

NegativeFlag(st) == Bit(st, 7) = 1

\* a flag update that sets the Negative bit and never clears it
update_flags_negative_sticky(c, result) ==
    LET s1 == IF result = 0 THEN SetBit(c.status, 1) ELSE ClearBit(c.status, 1)
    IN  [c EXCEPT !.status = IF Bit(result, 7) # 0 THEN SetBit(s1, 7) ELSE s1]

\* a flag update that builds the status byte from the two flags alone
update_flags_status_rebuilt(c, result) ==
    [c EXCEPT !.status = (IF result = 0 THEN 2 ELSE 0) + (IF Bit(result, 7) # 0 THEN 128 ELSE 0)]

update_zero_and_negative_flags(c, result) ==
    LET s1 == IF result = 0 THEN SetBit(c.status, 1) ELSE ClearBit(c.status, 1)
    IN  [c EXCEPT !.status = IF Bit(result, 7) # 0 THEN SetBit(s1, 7) ELSE ClearBit(s1, 7)]

-----------------------------------------------------------------------------
(* Addressing modes *)

AddressingMode ==
    {"Immediate", "ZeroPage", "ZeroPage_X", "ZeroPage_Y", "Absolute",
     "Absolute_X", "Absolute_Y", "Indirect", "Indirect_X", "Indirect_Y",
     "NoneAddressing"}

\* an 8-bit addition whose carry is kept
WrapAdd8_carry_kept(m, n) == m + n

\* Wrapping<u8> and Wrapping<u16> addition
WrapAdd8(m, n) == (m + n) % U8

\* a 16-bit addition that adds one more than its second operand
WrapAdd16_one_more(m, n) == (m + n + 1) % U16

WrapAdd16(m, n) == (m + n) % U16

\* a dereference that takes the high byte first
ZeroPagePointer_big_endian(c, ptr) ==
    Then(mem_read(c, ptr), LAMBDA hi :
    Then(mem_read(hi, WrapAdd8(ptr, 1)), LAMBDA lo :
    Return(lo, Word(hi.ret, lo.ret))))

\* dereference the two zero-page bytes at ptr and (ptr + 1) mod 256
ZeroPagePointer(c, ptr) ==
    Then(mem_read(c, ptr), LAMBDA lo :
    Then(mem_read(lo, WrapAdd8(ptr, 1)), LAMBDA hi :
    Return(hi, Word(hi.ret, lo.ret))))

get_operand_address(c, mode) ==
    CASE mode = "Immediate"  -> Return(c, c.pc)
      [] mode = "ZeroPage"   -> mem_read(c, c.pc)
      [] mode = "Absolute"   -> mem_read_u16(c, c.pc)
      [] mode = "ZeroPage_X" ->
            Then(mem_read(c, c.pc), LAMBDA pos : Return(pos, WrapAdd8(c.x, pos.ret)))
      [] mode = "ZeroPage_Y" ->
            Then(mem_read(c, c.pc), LAMBDA pos : Return(pos, WrapAdd8(pos.ret, c.y)))
      [] mode = "Absolute_X" ->
            Then(mem_read_u16(c, c.pc), LAMBDA base : Return(base, WrapAdd16(c.x, base.ret)))
      [] mode = "Absolute_Y" ->
            Then(mem_read_u16(c, c.pc), LAMBDA base : Return(base, WrapAdd16(c.y, base.ret)))
      [] mode = "Indirect"   ->
            Then(mem_read(c, c.pc), LAMBDA base : ZeroPagePointer(base, base.ret))
      [] mode = "Indirect_X" ->
            Then(mem_read(c, c.pc), LAMBDA base :
            ZeroPagePointer(base, WrapAdd8(base.ret, c.x)))
      [] mode = "Indirect_Y" ->
            Then(mem_read(c, c.pc), LAMBDA base :
            Then(ZeroPagePointer(base, base.ret), LAMBDA deref :
            Return(deref, WrapAdd16(deref.ret, c.y))))
      [] mode = "NoneAddressing" -> Panic(c, "mode is not supported")

\* an operand size that counts one byte for the absolute modes too
get_address_size_one_byte(mode) ==
    CASE mode \in {"Immediate", "ZeroPage", "ZeroPage_X", "ZeroPage_Y"} -> 1
      [] mode \in {"Absolute", "Absolute_X", "Absolute_Y"} -> 1
      [] mode \in {"Indirect", "Indirect_X", "Indirect_Y"} -> 1
      [] mode = "NoneAddressing" -> 0

get_address_size(mode) ==
    CASE mode \in {"Immediate", "ZeroPage", "ZeroPage_X", "ZeroPage_Y"} -> 1
      [] mode \in {"Absolute", "Absolute_X", "Absolute_Y"} -> 2
      [] mode \in {"Indirect", "Indirect_X", "Indirect_Y"} -> 1
      [] mode = "NoneAddressing" -> 0

-----------------------------------------------------------------------------
(* Instruction handlers *)

lda(c, mode) ==
    Then(get_operand_address(c, mode), LAMBDA addr :
    Then(mem_read(addr, addr.ret), LAMBDA value :
    update_zero_and_negative_flags([value EXCEPT !.a = value.ret], value.ret)))

ldy(c, mode) ==
    Then(get_operand_address(c, mode), LAMBDA addr :
    Then(mem_read(addr, addr.ret), LAMBDA value :
    update_zero_and_negative_flags([value EXCEPT !.y = value.ret], value.ret)))

ldx(c, mode) ==
    Then(get_operand_address(c, mode), LAMBDA addr :
    Then(mem_read(addr, addr.ret), LAMBDA value :
    update_zero_and_negative_flags([value EXCEPT !.x = value.ret], value.ret)))

tax(c) == update_zero_and_negative_flags([c EXCEPT !.x = c.a], c.a)

txa(c) == update_zero_and_negative_flags([c EXCEPT !.a = c.x], c.x)

\* an increment with the plain `+= 1` of u8, which overflows at $FF
inx_checked(c) ==
    Then(CheckedArith(c, c.x + 1, U8, "attempt to add with overflow"), LAMBDA inc :
    update_zero_and_negative_flags([inc EXCEPT !.x = inc.ret], inc.ret))

inx(c) == update_zero_and_negative_flags([c EXCEPT !.x = WrapAdd8(c.x, 1)], WrapAdd8(c.x, 1))

\* a store that also sets the flags from the stored value
sta_sets_flags(c, mode) ==
    Then(get_operand_address(c, mode), LAMBDA addr :
    update_zero_and_negative_flags(mem_write(addr, addr.ret, addr.a), addr.a))

sta(c, mode) ==
    Then(get_operand_address(c, mode), LAMBDA addr : mem_write(addr, addr.ret, addr.a))

stx(c, mode) ==
    Then(get_operand_address(c, mode), LAMBDA addr : mem_write(addr, addr.ret, addr.x))

sty(c, mode) ==
    Then(get_operand_address(c, mode), LAMBDA addr : mem_write(addr, addr.ret, addr.y))

\* a jump that falls through to the generic advance
jmp_then_advance(c, mode) ==
    Then(get_operand_address(c, mode), LAMBDA addr :
    [addr EXCEPT !.pc = (addr.ret + get_address_size(mode)) % U16])

jmp(c, mode) ==
    Then(get_operand_address(c, mode), LAMBDA addr : [addr EXCEPT !.pc = addr.ret])

jsr(c, mode) ==
    Then(CheckedArith(c, c.pc + get_address_size(mode), U16,
                      "attempt to add with overflow"), LAMBDA adv :
    Then(get_operand_address([adv EXCEPT !.pc = adv.ret], mode), LAMBDA addr :
    Then(CheckedArith(addr, addr.pc - 1, U16,
                      "attempt to subtract with overflow"), LAMBDA save :
    Then(stack_push(save, LoByte(save.ret)), LAMBDA c1 :
    Then(stack_push(c1, HiByte(save.ret)), LAMBDA c2 :
    [c2 EXCEPT !.pc = addr.ret])))))

\* `(hi as u16) << 8 + lo as u16` parses as (hi as u16) << (8 + (lo as u16)):
\* a shift by 16 or more panics under overflow checks and is masked to its
\* low four bits without them; the result is truncated to 16 bits.
ShiftLeft16(c, v, amount) ==
    IF amount < 16 THEN Return(c, (v * 2 ^ amount) % U16)
    ELSE IF c.checks THEN Panic(c, "attempt to shift left with overflow")
    ELSE Return(c, (v * 2 ^ (amount % 16)) % U16)

rts(c) ==
    Then(stack_pop(c), LAMBDA lo :
    Then(stack_pop(lo), LAMBDA hi :
    Then(ShiftLeft16(hi, hi.ret, 8 + lo.ret), LAMBDA popped :
    Then(CheckedArith(popped, popped.ret + 1, U16,
                      "attempt to add with overflow"), LAMBDA nxt :
    [nxt EXCEPT !.pc = nxt.ret]))))

-----------------------------------------------------------------------------
(* The opcode table of CPU::run *)

Entry(ins, mode) == [ins |-> ins, mode |-> mode]

OpTable ==
    [op \in {\hA9, \hA5, \hB5, \hAD, \hBD, \hB9, \hA1, \hB1, \hA0, \hA2,
             \h85, \h95, \h8E, \h86, \h96, \h8C, \h84, \h94,
             \h4C, \h6C, \h20, \h40, \hAA, \h8A, \hE8, \h00} |->
        CASE op = \hA9 -> Entry("LDA", "Immediate")
          [] op = \hA5 -> Entry("LDA", "ZeroPage")
          [] op = \hB5 -> Entry("LDA", "ZeroPage_X")
          [] op = \hAD -> Entry("LDA", "Absolute")
          [] op = \hBD -> Entry("LDA", "Absolute_X")
          [] op = \hB9 -> Entry("LDA", "Absolute_Y")
          [] op = \hA1 -> Entry("LDA", "Indirect_X")
          [] op = \hB1 -> Entry("LDA", "Indirect_Y")
          [] op = \hA0 -> Entry("LDY", "Immediate")
          [] op = \hA2 -> Entry("LDX", "Immediate")
          [] op = \h85 -> Entry("STA", "ZeroPage")
          [] op = \h95 -> Entry("STA", "ZeroPage_X")
          [] op = \h8E -> Entry("STX", "Absolute")
          [] op = \h86 -> Entry("STX", "ZeroPage")
          [] op = \h96 -> Entry("STX", "ZeroPage_Y")
          [] op = \h8C -> Entry("STY", "Absolute")
          [] op = \h84 -> Entry("STY", "ZeroPage")
          [] op = \h94 -> Entry("STY", "ZeroPage_X")
          [] op = \h4C -> Entry("JMP", "Absolute")
          [] op = \h6C -> Entry("JMP", "Indirect")
          [] op = \h20 -> Entry("JSR", "Absolute")
          [] op = \h40 -> Entry("RTS", "NoneAddressing")
          [] op = \hAA -> Entry("TAX", "NoneAddressing")
          [] op = \h8A -> Entry("TXA", "NoneAddressing")
          [] op = \hE8 -> Entry("INX", "NoneAddressing")
          [] op = \h00 -> Entry("BRK", "NoneAddressing")]

Supported(op) == op \in DOMAIN OpTable

\* the match arm of an instruction that falls through to the generic advance
Execute(c, ins, mode) ==
    CASE ins = "LDA" -> lda(c, mode)
      [] ins = "LDY" -> ldy(c, mode)
      [] ins = "LDX" -> ldx(c, mode)
      [] ins = "STA" -> sta(c, mode)
      [] ins = "STX" -> stx(c, mode)
      [] ins = "STY" -> sty(c, mode)
      [] ins = "TAX" -> tax(c)
      [] ins = "TXA" -> txa(c)
      [] ins = "INX" -> inx(c)

\* `self.program_counter += self.get_address_size(&mode)`
Advance(c, mode) ==
    Then(CheckedArith(c, c.pc + get_address_size(mode), U16,
                      "attempt to add with overflow"), LAMBDA adv :
    [adv EXCEPT !.pc = adv.ret])

\* an unknown opcode treated as a no-op
unsupported_opcode_skipped(c, opscode) == c

\* the arm `_ => todo!("{:X?}", opscode)`
unsupported_opcode(c, opscode) == Panic(c, "not yet implemented")

\* the arm of a supported opcode; JMP, JSR and RTS `continue` and 0x00
\* returns, the others fall through to the advance by the operand size
match_arm(c, e) ==
    CASE e.ins = "JMP" -> jmp(c, e.mode)
      [] e.ins = "JSR" -> jsr(c, e.mode)
      [] e.ins = "RTS" -> rts(c)
      [] e.ins = "BRK" -> [c EXCEPT !.halted = TRUE]
      [] OTHER -> Then(Execute(c, e.ins, e.mode), LAMBDA c1 : Advance(c1, e.mode))

match_opscode(c, opscode) ==
    IF Supported(opscode) THEN match_arm(c, OpTable[opscode])
    ELSE unsupported_opcode(c, opscode)

\* one iteration of the loop of CPU::run
run_iteration(c) ==
    Then(mem_read(c, c.pc), LAMBDA op :
    Then(CheckedArith(op, op.pc + 1, U16, "attempt to add with overflow"), LAMBDA inc :
    match_opscode([inc EXCEPT !.pc = inc.ret], op.ret)))

-----------------------------------------------------------------------------
(* Program images: a Vec<u8>, given by its length and its non-zero bytes    *)
(* (index from 0).                                                          *)

Vec(bytes) ==
    [len   |-> Len(bytes),
     cells |-> [i \in {k - 1 : k \in {j \in 1..Len(bytes) : bytes[j] # 0}} |-> bytes[i + 1]]]

\* bytes, then zeros up to length n, the last byte being tail
Padded(bytes, n, tail) ==
    [len   |-> n,
     cells |-> [i \in DOMAIN Vec(bytes).cells \cup (IF tail = 0 THEN {} ELSE {n - 1}) |->
                  IF i = n - 1 THEN tail ELSE bytes[i + 1]]]

ImageByte(img, i) == IF i \in DOMAIN img.cells THEN img.cells[i] ELSE 0

\* programs of the unit tests of src/main.rs
TestPrograms ==
    {<<\hA9, \h05, \h00>>, <<\hA0, \h05, \h00>>,
     <<\hA9, \hC0, \hAA, \hE8, \h00>>,
     <<\hA0, \h01, \hA9, \h03, \h85, \h01, \hA9, \h07, \h85, \h02, \hA2, \h0A,
       \h8E, \h04, \h07, \hB1, \h01, \h00>>,
     <<\hE8, \hE8, \h00>>,
     <<\hB5, \h10, \h00>>, <<\hBD, \h10, \h00, \h00>>,
     <<\hA1, \h01, \h00>>, <<\hB1, \h01, \h00>>,
     <<\h95, \h01, \h00>>, <<\h96, \h01, \h00>>, <<\h94, \h01, \h00>>,
     <<\h4C, \h01, \h00, \h00>>, <<\h6C, \h01, \h00, \h00>>}

\* programs that reach the edges of the opcode table, the stack and the memory
EdgePrograms ==
    {<<\hEA>>,                                       \* a byte with no table entry
     <<\hA9, \h80, \hEA, \hA9, \h06, \h00>>,         \* the same, in mid-program
     <<\h20, \h05, \h80, \h05, \h80, \h40, \h00>>,   \* JSR to an RTS
     <<\hA9, \h09, \h85, \hFD, \h20, \h09, \h80, \h09, \h80, \h40, \h00>>,
     <<\h20, \h03, \h80, \h00>>,                     \* JSR, then halt
     <<\h40, \h00>>,                                 \* RTS on an empty stack
     <<\hAD, \hFF, \hFF, \h00>>,                     \* LDA $FFFF
     <<\hA2, \h01, \h8E, \hFF, \hFF, \h00>>,         \* STX $FFFF
     <<\hA2, \h01, \hBD, \hFE, \hFF, \h00>>,         \* LDA $FFFE,X with X = 1
     <<\hA2, \hAA, \h8E, \hFE, \hFF, \h4C, \hFE, \hFF>>, \* run into $FFFF
     <<\hA2, \h07, \h8E, \hFC, \hFF, \h00>>,         \* overwrite the reset vector
     <<\h4C, \h04, \h80, \hEA, \h00>>,               \* JMP over a byte
     <<\hA9, \h32, \h85, \h01, \h6C, \h01, \h00>>,   \* JMP ($01)
     <<\hA9, \h80, \h85, \h00, \hA9, \h34, \h85, \hFF, \h6C, \hFF>>} \* JMP ($FF)

\* images that end around the end of the memory array
EdgeImages ==
    {Padded(<<\hA9, \h05>>, n, \hEA) : n \in {\h7FFC, \h7FFD, \h7FFE, \h7FFF, \h8000}}
    \cup {Padded(<<\hA9, \h05>>, \h8001, \h00)}

Images == {Vec(p) : p \in TestPrograms \cup EdgePrograms} \cup EdgeImages

\* a loop that takes X through every byte value and produces that value with
\* every register-producing instruction:
\*   8000 INX          8001 TXA          8002 TAX
\*   8003 STX $800D    8006 STX $800F    8009 STX $8011
\*   800C LDY #imm     800E LDX #imm     8010 LDA #imm
\*   8012 STA $00,X    8014 LDA $00,X    8016 STA $10      8018 LDA $10
\*   801A LDA $800D    801D LDA $0000,X  8020 LDA $0000,Y
\*   8023 LDA ($00,X)  8025 LDA ($FD),Y  8027 JMP $8000
SweepProgram ==
    <<\hE8, \h8A, \hAA, \h8E, \h0D, \h80, \h8E, \h0F, \h80, \h8E, \h11, \h80,
      \hA0, \h00, \hA2, \h00, \hA9, \h00,
      \h95, \h00, \hB5, \h00, \h85, \h10, \hA5, \h10, \hAD, \h0D, \h80,
      \hBD, \h00, \h00, \hB9, \h00, \h00, \hA1, \h00, \hB1, \hFD,
      \h4C, \h00, \h80>>

\* a JSR that calls itself for ever: the word after its operand is $8000
NestProgram == <<\h20, \h00, \h80, \h00, \h80>>

\* an RTS on the empty stack, then halt
ReturnProgram == <<\h40, \h00>>

LongPrograms == {SweepProgram, NestProgram, ReturnProgram}

\* values the host assigns to the public status field before the sweep
SweepStatus == {\h00, \h7D, \hFF}

\* values the host assigns to the public register fields
PokeBytes == {\h01, \h09, \hFF}

-----------------------------------------------------------------------------
(* The host's calls *)

NoImage == Vec(<< >>)

HostMayCall == phase \in {"Idle", "Halted"} /\ calls < MaxCalls

Install(c) ==
    /\ register_a' = c.a
    /\ register_x' = c.x
    /\ register_y' = c.y
    /\ status' = c.status
    /\ program_counter' = c.pc
    /\ stack_pointer' = c.sp
    /\ memory' = c.mem
    /\ panic' = c.panic

\* `self.memory[0x8000..(0x8000 + program.len())].copy_from_slice(&program[..])`
copy_from_slice(c, img) ==
    LET end  == ProgramOrigin + img.len
        keep == {a \in DOMAIN c.mem : a < ProgramOrigin \/ a >= end}
        new  == {ProgramOrigin + i : i \in DOMAIN img.cells}
    IN  IF end > MemorySize
        THEN Panic(c, "range end index out of range for slice")
        ELSE [c EXCEPT !.mem = [a \in keep \cup new |->
                                   IF a \in new THEN img.cells[a - ProgramOrigin]
                                   ELSE c.mem[a]]]

load(c, img) ==
    Then(copy_from_slice(c, img), LAMBDA c1 : mem_write_u16(c1, ResetVector, ProgramOrigin))

\* a reset that forgets to clear X
reset_keeps_x(c) ==
    Then(mem_read_u16([c EXCEPT !.a = 0, !.y = 0, !.status = 0], ResetVector),
         LAMBDA v : [v EXCEPT !.pc = v.ret])

reset(c) ==
    Then(mem_read_u16([c EXCEPT !.a = 0, !.x = 0, !.y = 0, !.status = 0], ResetVector),
         LAMBDA v : [v EXCEPT !.pc = v.ret])

\* the CPU after a call of the host: the call returned, or panicked
Returned(c) ==
    /\ Install(c)
    /\ phase' = IF Ok(c) THEN "Idle" ELSE "Panicked"

Load(img) ==
    /\ HostMayCall
    /\ loads < MaxLoads
    /\ Returned(load(CpuNow, img))
    /\ loads' = loads + 1
    /\ calls' = calls + 1
    /\ called' = [name |-> "load", image |-> img]
    /\ UNCHANGED <<overflow_checks, fetched>>

Reset ==
    /\ HostMayCall
    /\ Returned(reset(CpuNow))
    /\ calls' = calls + 1
    /\ called' = [name |-> "reset", image |-> NoImage]
    /\ UNCHANGED <<overflow_checks, fetched, loads>>

\* the host assigns a public register field, as the unit tests do
Poke(reg, v) ==
    /\ HostMayCall
    /\ register_a' = IF reg = "a" THEN v ELSE register_a
    /\ register_x' = IF reg = "x" THEN v ELSE register_x
    /\ register_y' = IF reg = "y" THEN v ELSE register_y
    /\ phase' = "Idle"
    /\ calls' = calls + 1
    /\ called' = [name |-> "poke", image |-> NoImage]
    /\ UNCHANGED <<status, program_counter, stack_pointer, memory, panic,
                   overflow_checks, fetched, loads>>

\* the host calls run(): the loop is entered
Run ==
    /\ HostMayCall
    /\ phase' = "Running"
    /\ calls' = calls + 1
    /\ called' = [name |-> "run", image |-> NoImage]
    /\ UNCHANGED <<register_a, register_x, register_y, status, program_counter,
                   stack_pointer, memory, panic, overflow_checks, fetched,
                   loads>>

\* an iteration after which the loop goes on even past the opcode 0x00
Iterated_runs_on(c) ==
    /\ Install(c)
    /\ phase' = IF ~Ok(c) THEN "Panicked" ELSE "Running"

\* the CPU after an iteration: the loop goes on, has returned, or panicked
Iterated(c) ==
    /\ Install(c)
    /\ phase' = IF ~Ok(c) THEN "Panicked"
                ELSE IF c.halted THEN "Halted" ELSE "Running"

\* one iteration of the loop of run()
Step ==
    /\ phase = "Running"
    /\ Iterated(run_iteration(CpuNow))
    /\ fetched' = [op |-> IF InBounds(program_counter)
                          THEN Cell(memory, program_counter) ELSE -1,
                   at |-> program_counter, sp |-> stack_pointer]
    /\ UNCHANGED <<overflow_checks, called, loads, calls>>

NoInstruction == [op |-> -1, at |-> -1, sp |-> -1]

\* CPU::new(), under either build profile
Init ==
    /\ register_a = 0
    /\ register_x = 0
    /\ register_y = 0
    /\ status = 0
    /\ program_counter = 0
    /\ stack_pointer = StackPointerInit
    /\ memory = ZeroMemory
    /\ phase = "Idle"
    /\ panic = "none"
    /\ overflow_checks \in BOOLEAN
    /\ fetched = NoInstruction
    /\ called = [name |-> "new", image |-> NoImage]
    /\ loads = 0
    /\ calls = 0

Next ==
    \/ \E img \in Images : Load(img)
    \/ Reset
    \/ \E reg \in {"a", "x", "y"}, v \in PokeBytes : Poke(reg, v)
    \/ Run
    \/ Step

Spec == Init /\ [][Next]_vars

-----------------------------------------------------------------------------
(* The long runs: `load(program); reset()` of a program of LongPrograms,    *)
(* the host assigns the public status field, and run() is entered.          *)

NewCpu(checks) ==
    [a |-> 0, x |-> 0, y |-> 0, status |-> 0, pc |-> 0, sp |-> StackPointerInit,
     mem |-> ZeroMemory, panic |-> "none", halted |-> FALSE, checks |-> checks,
     ret |-> 0]

Constructed(c) ==
    /\ register_a = c.a
    /\ register_x = c.x
    /\ register_y = c.y
    /\ program_counter = c.pc
    /\ stack_pointer = c.sp
    /\ memory = c.mem
    /\ panic = c.panic

InitSweep ==
    /\ overflow_checks \in BOOLEAN
    /\ \E p \in LongPrograms : Constructed(reset(load(NewCpu(overflow_checks), Vec(p))))
    /\ status \in SweepStatus
    /\ phase = "Running"
    /\ fetched = NoInstruction
    /\ called = [name |-> "run", image |-> NoImage]
    /\ loads = 1
    /\ calls = 4

NextSweep == Step

SpecSweep == InitSweep /\ [][NextSweep]_vars

-----------------------------------------------------------------------------
(* The single instructions: as the unit tests do, the host writes memory,   *)
(* calls init(program) (load, then reset), assigns the public register      *)
(* fields and enters run().  The program is one instruction with one of     *)
(* the operand bytes, followed by zeros.                                    *)

Byte == 0..(U8 - 1)

OperandBytes == {\h01, \h02, \h10, \hFF}

OneInstruction ==
    {IF OpTable[op].mode = "NoneAddressing" THEN <<op, 0>> ELSE <<op, b, 0, 0>> :
        op \in DOMAIN OpTable, b \in OperandBytes}

\* the program of test_combined_ld_st
CombinedProgram ==
    <<\hA0, \h01, \hA9, \h03, \h85, \h01, \hA9, \h07, \h85, \h02, \hA2, \h0A,
      \h8E, \h04, \h07, \hB1, \h01, \h00>>

\* the cells the tests write before init(): test_lda_from_memory_x ($19),
\* test_lda_ind_y ($01, $02, $0704); a pointer to $FFF0 at $10, and a pointer
\* that straddles $FF/$00
PreparedMemory ==
    (\h00 :> \h12) @@ (\h01 :> \h03) @@ (\h02 :> \h07) @@ (\h19 :> \h55)
    @@ (\h10 :> \hF0) @@ (\h11 :> \hFF)
    @@ (\hFF :> \h34) @@ (\h0704 :> \h0A) @@ (\h0705 :> \h0B)

\* the register values the host assigns: each of A, X, Y and status takes
\* every byte value while the others have the values of the tests
RegisterFiles ==
         {[a |-> \h55, x |-> i, y |-> \h01, status |-> \h00] : i \in Byte}
    \cup {[a |-> \h80, x |-> \h09, y |-> i, status |-> \h7D] : i \in Byte}
    \cup {[a |-> i, x |-> \h09, y |-> \h01, status |-> \hFF] : i \in Byte}
    \cup {[a |-> \h00, x |-> \hFF, y |-> \h01, status |-> i] : i \in Byte}

\* the host assigns the public register fields of the CPU that init() left
Assigned(c) ==
    \E r \in RegisterFiles :
        /\ Constructed([c EXCEPT !.a = r.a, !.x = r.x, !.y = r.y])
        /\ status = r.status

InitIndexed ==
    /\ overflow_checks \in BOOLEAN
    /\ \E p \in OneInstruction \cup {CombinedProgram} :
         Assigned(reset(load([NewCpu(overflow_checks) EXCEPT !.mem = PreparedMemory],
                             Vec(p))))
    /\ phase = "Running"
    /\ fetched = NoInstruction
    /\ called = [name |-> "run", image |-> NoImage]
    /\ loads = 1
    /\ calls = 4

NextIndexed == Step

SpecIndexed == InitIndexed /\ [][NextIndexed]_vars


-----------------------------------------------------------------------------
(* Vocabulary of the properties *)

\* the spec's address space: 65536 byte cells
AddressSpace == U16

\* the loop of run() is about to fetch the opcode at the program counter
Fetching == phase = "Running" /\ InBounds(program_counter)

OpAtPc == Cell(memory, program_counter)

InsAtPc == IF Supported(OpAtPc) THEN OpTable[OpAtPc].ins ELSE "none"

\* the step is a call of the host with this name
Calling(name) == called'.name = name /\ calls' = calls + 1

RegisterProducing == {"LDA", "LDX", "LDY", "TAX", "TXA", "INX"}

\* the register an instruction produces its value in
Destination(ins, a, x, y) ==
    CASE ins \in {"LDA", "TXA"} -> a
      [] ins \in {"LDX", "TAX", "INX"} -> x
      [] ins = "LDY" -> y

RegistersAndMemoryUnchanged ==
    UNCHANGED <<register_a, register_x, register_y, status, stack_pointer, memory>>

-----------------------------------------------------------------------------
(* C1 *)

\* C1: after a register-producing instruction (LDA in any addressing mode,
\* LDX, LDY, TAX, TXA, INX) has produced the value v in its register, the Zero
\* flag (status bit 1) is set iff v = 0 and the Negative flag (status bit 7)
\* is set iff bit 7 of v is set.
C1_FlagsFollowProducedValue ==
    [][(Fetching /\ InsAtPc \in RegisterProducing /\ phase' # "Panicked") =>
          LET v == Destination(InsAtPc, register_a', register_x', register_y')
          IN  /\ ZeroFlag(status') <=> (v = 0)
              /\ NegativeFlag(status') <=> (v >= 128)]_vars

\* INX has wrapped X from $FF to 0 and set Zero, with Negative clear, in a run
\* that began with every status bit set
C1_Witness ==
    /\ phase = "Running"
    /\ fetched.op = \hE8
    /\ register_x = 0
    /\ status = \h7F

-----------------------------------------------------------------------------
(* C2 *)

\* C2: when the loop fetches an opcode byte with no entry in the opcode table,
\* the run ends in the UnsupportedOpcode failure (the todo!() panic): the byte
\* is not skipped, A, X, Y, status, SP and memory keep their values, and no
\* step is ever taken after the failure.
C2_UnsupportedOpcodeIsFatal ==
    [][/\ phase # "Panicked"
       /\ (Fetching /\ ~Supported(OpAtPc)) =>
             /\ phase' = "Panicked"
             /\ panic' = "not yet implemented"
             /\ RegistersAndMemoryUnchanged]_vars

\* LDA #$80 has run, and the byte $EA after it has ended the run
C2_Witness ==
    /\ phase = "Panicked"
    /\ panic = "not yet implemented"
    /\ fetched.op = \hEA
    /\ register_a = \h80

-----------------------------------------------------------------------------
(* C3 *)

\* C3: a JSR at address p whose target holds an RTS: after the JSR and then
\* the RTS, PC = p + 3 and SP has the value it had before the JSR.
C3_JsrRtsRoundTrip ==
    [][(Fetching /\ fetched.op = \h20 /\ OpAtPc = \h40) =>
          /\ program_counter' = (fetched.at + 3) % U16
          /\ stack_pointer' = fetched.sp]_vars

-----------------------------------------------------------------------------
(* C4 *)

\* C4: after a load(image) that succeeds, memory[0x8000 + i] = image[i] for
\* every i < len(image), the little-endian word at 0xFFFC is 0x8000, every
\* other cell is unchanged, and a reset() that follows sets PC to 0x8000.
C4_LoadInstallsImage ==
    [][/\ (Calling("load") /\ phase' # "Panicked") =>
             LET img == called'.image
                 end == ProgramOrigin + img.len
             IN  /\ \A i \in 0..(img.len - 1) :
                        Cell(memory', ProgramOrigin + i) = ImageByte(img, i)
                 /\ Cell(memory', ResetVector) = LoByte(ProgramOrigin)
                 /\ Cell(memory', ResetVector + 1) = HiByte(ProgramOrigin)
                 /\ \A a \in DOMAIN memory \cup DOMAIN memory' :
                        (a < ProgramOrigin \/ a >= end) /\ a \notin {ResetVector, ResetVector + 1}
                            => Cell(memory', a) = Cell(memory, a)
       /\ (called.name = "load" /\ Calling("reset") /\ phase' # "Panicked") =>
             program_counter' = ProgramOrigin]_vars

-----------------------------------------------------------------------------
(* C5 *)

\* C5: load(image) of an image that does not fit in the address space past
\* the origin reports the recoverable error ProgramTooLarge: the program is
\* not aborted, and no memory cell and no register changes.
C5_ProgramTooLargeIsRecoverable ==
    [][(Calling("load") /\ ProgramOrigin + called'.image.len > AddressSpace) =>
          /\ phase' # "Panicked"
          /\ RegistersAndMemoryUnchanged
          /\ program_counter' = program_counter]_vars

-----------------------------------------------------------------------------
(* C6 *)

\* C6: reset() sets A = X = Y = 0 and status = 0, sets PC to the little-endian
\* word stored at 0xFFFC/0xFFFD, and leaves memory unchanged.
C6_ResetClearsAndVectors ==
    [][Calling("reset") =>
          /\ phase' # "Panicked"
          /\ register_a' = 0
          /\ register_x' = 0
          /\ register_y' = 0
          /\ status' = 0
          /\ program_counter' = Cell(memory, ResetVector) + 256 * Cell(memory, ResetVector + 1)
          /\ memory' = memory]_vars

\* a run has left X = 7 and stored it over the low byte of the reset vector,
\* and the reset after it has cleared X and taken PC from the new vector
C6_Witness ==
    /\ called.name = "reset"
    /\ fetched.op = \h00
    /\ Cell(memory, ResetVector) = \h07
    /\ program_counter = \h8007
    /\ register_x = 0

-----------------------------------------------------------------------------
(* C7 *)

\* C7: after reset() the stack pointer is 0xFF, also after a run that
\* executed JSR or RTS and halted with another SP.
C7_ResetRestoresStackPointer ==
    called.name = "reset" => stack_pointer = StackPointerInit

-----------------------------------------------------------------------------
(* C8 *)

\* C8: every address 0x0000..0xFFFF is a readable and writable cell: no read
\* or write of the memory ever fails.
C8_EveryAddressIsACell == panic # "index out of bounds"

-----------------------------------------------------------------------------
(* C9 *)

\* the address the claim names: the word after the opcode for 0x4C; for 0x6C
\* the word at the zero-page byte b after the opcode and at (b + 1) mod 256
JmpTarget ==
    LET b == Cell(memory, program_counter + 1)
    IN  IF OpAtPc = \h4C
        THEN b + 256 * Cell(memory, program_counter + 2)
        ELSE Cell(memory, b) + 256 * Cell(memory, (b + 1) % 256)

\* C9: a JMP (0x4C Absolute, 0x6C Indirect) that executes sets PC to exactly
\* the resolved operand address, with no advance by the operand size on top,
\* and leaves A, X, Y, status, SP and memory unchanged.
C9_JmpSetsPcToOperand ==
    [][(Fetching /\ InsAtPc = "JMP" /\ phase' # "Panicked") =>
          /\ program_counter' = JmpTarget
          /\ RegistersAndMemoryUnchanged]_vars

\* JMP ($FF) has taken its low byte from $FF and its high byte from $00
C9_Witness ==
    /\ phase = "Running"
    /\ fetched.op = \h6C
    /\ Cell(memory, \hFF) = \h34
    /\ Cell(memory, \h00) = \h80
    /\ program_counter = \h8034

-----------------------------------------------------------------------------
(* C10 *)

StackArithmeticPanics ==
    {"attempt to add with overflow", "attempt to subtract with overflow"}

\* C10: stack-pointer arithmetic wraps modulo 256 and never traps: no JSR or
\* RTS ends the run with an arithmetic failure, a JSR lowers SP by 2 and an
\* RTS raises it by 2, modulo 256.
C10_StackPointerNeverTraps ==
    [][(Fetching /\ InsAtPc \in {"JSR", "RTS"}) =>
          /\ panic' \notin StackArithmeticPanics
          /\ (InsAtPc = "JSR" /\ panic' = "none") =>
                stack_pointer' = (stack_pointer - 2) % U8
          /\ (InsAtPc = "RTS" /\ panic' = "none") =>
                stack_pointer' = (stack_pointer + 2) % U8]_vars

-----------------------------------------------------------------------------
(* C11 *)

ModeAtPc == IF Supported(OpAtPc) THEN OpTable[OpAtPc].mode ELSE "none"

\* the byte after the opcode the loop is about to fetch
OperandByte == Cell(memory, program_counter + 1)

Stores == {"STA", "STX", "STY"}

\* the register a store instruction writes to memory
Source(ins, a, x, y) ==
    CASE ins = "STA" -> a
      [] ins = "STX" -> x
      [] ins = "STY" -> y

\* the instruction at PC loads A from, or stores its register to, the cell ea
AccessesCell(ea) ==
    /\ phase' # "Panicked"
    /\ InsAtPc = "LDA" => register_a' = Cell(memory, ea)
    /\ InsAtPc \in Stores =>
          memory' = Store(memory, ea, Source(InsAtPc, register_a, register_x, register_y))

\* C11: an instruction in mode ZeroPage_X (ZeroPage_Y) accesses the cell at
\* (operand byte + X) mod 256 ((operand byte + Y) mod 256), an address within
\* 0x0000..0x00FF, for every operand byte and every index value.
C11_ZeroPageIndexedWraps ==
    [][(Fetching /\ ModeAtPc \in {"ZeroPage_X", "ZeroPage_Y"}) =>
          LET index == IF ModeAtPc = "ZeroPage_X" THEN register_x ELSE register_y
              ea    == (OperandByte + index) % 256
          IN  /\ ea \in 0..255
              /\ AccessesCell(ea)]_vars

\* LDA $02,X with X = $FF has loaded the byte 3 of the cell $01, not of $0101
C11_Witness ==
    /\ fetched.op = \hB5
    /\ Cell(memory, fetched.at + 1) = \h02
    /\ register_x = \hFF
    /\ register_a = \h03
    /\ phase = "Running"

-----------------------------------------------------------------------------
(* C12 *)

\* C12: LDA in mode Indirect_Y, with b the operand byte, loads A from the
\* cell ((mem[(b+1) mod 256] << 8 | mem[b]) + Y) mod 65536, whatever X is
\* (where that address is a cell of the memory array).
C12_IndirectYPostIndexed ==
    [][(Fetching /\ ModeAtPc = "Indirect_Y") =>
          LET b  == OperandByte
              ea == (Cell(memory, (b + 1) % 256) * 256 + Cell(memory, b) + register_y) % 65536
          IN  InBounds(ea) => AccessesCell(ea)]_vars

\* the program of test_combined_ld_st has stored 3 at $01, 7 at $02 and $0A
\* at $0704, and its LDA ($01),Y with Y = 1 has loaded $0A
C12_Witness ==
    /\ fetched.op = \hB1
    /\ fetched.at = \h800F
    /\ Cell(memory, \h01) = \h03
    /\ Cell(memory, \h02) = \h07
    /\ Cell(memory, \h0704) = \h0A
    /\ register_y = \h01
    /\ register_x = \h0A
    /\ register_a = \h0A

-----------------------------------------------------------------------------
(* C13 *)

\* the loop is about to fetch an instruction in mode Indirect_Y with operand
\* byte $01 and Y = 1, the cells $01 and $02 holding 3 and 7
IndirectYExample ==
    /\ Fetching
    /\ ModeAtPc = "Indirect_Y"
    /\ OperandByte = \h01
    /\ register_y = \h01
    /\ Cell(memory, \h01) = \h03
    /\ Cell(memory, \h02) = \h07

\* C13, as amended: Indirect_Y with zero-page pointer bytes 0x03 at 0x01 and
\* 0x07 at 0x02, operand byte 0x01 and Y = 1 resolves to the effective address
\* 0x0704 (the pointer 0x0703 plus Y).
C13_IndirectYExampleIs0704 ==
    [][IndirectYExample => AccessesCell(\h0704)]_vars

\* C13, as the claim states it: the same resolves to the effective address
\* 0x0705.
C13_IndirectYExampleIs0705 ==
    [][IndirectYExample => AccessesCell(\h0705)]_vars

\* the one-instruction program LDA ($01),Y has loaded the byte $0A of the
\* cell $0704 while the cell $0705 holds $0B
C13_Witness ==
    /\ fetched.op = \hB1
    /\ fetched.at = \h8000
    /\ Cell(memory, \h8001) = \h01
    /\ Cell(memory, \h01) = \h03
    /\ Cell(memory, \h02) = \h07
    /\ Cell(memory, \h0705) = \h0B
    /\ register_y = \h01
    /\ register_a = \h0A

-----------------------------------------------------------------------------
(* C14 *)

\* the six status bits other than Zero (bit 1) and Negative (bit 7)
OtherBits(st) == ClearBit(ClearBit(st, 1), 7)

\* the instructions documented with flags `none`
FlagsNone == {"STA", "STX", "STY", "JMP", "JSR", "RTS", "BRK"}

\* C14: no instruction changes a status bit other than Zero (bit 1) and
\* Negative (bit 7), for every prior status value and every produced value;
\* STA, STX, STY, JMP, JSR, RTS and the halt leave the whole status byte
\* unchanged.
C14_OnlyZeroAndNegativeChange ==
    [][Fetching =>
          /\ OtherBits(status') = OtherBits(status)
          /\ InsAtPc \in FlagsNone => status' = status]_vars

\* LDA #$FF has set Negative and cleared Zero in the status $7F the host had
\* assigned, and the other six bits are still set
C14_Witness ==
    /\ fetched.op = \hA9
    /\ register_a = \hFF
    /\ register_x = \hFF
    /\ status = \hFD
    /\ phase = "Running"

-----------------------------------------------------------------------------
(* C15 *)

\* the operand address of a store instruction, as the spec defines its mode
StoreAddress ==
    CASE ModeAtPc = "ZeroPage"   -> OperandByte
      [] ModeAtPc = "ZeroPage_X" -> (OperandByte + register_x) % 256
      [] ModeAtPc = "ZeroPage_Y" -> (OperandByte + register_y) % 256
      [] ModeAtPc = "Absolute"   -> OperandByte + 256 * Cell(memory, program_counter + 2)

\* the two registers that are not the destination of the instruction
OthersUnchanged(ins) ==
    CASE ins \in {"LDA", "TXA"} -> UNCHANGED <<register_x, register_y>>
      [] ins \in {"LDX", "TAX", "INX"} -> UNCHANGED <<register_a, register_y>>
      [] ins = "LDY" -> UNCHANGED <<register_a, register_x>>

\* C15: an LDA, LDX, LDY, TAX, TXA or INX that completes changes only its
\* destination register, the Zero and Negative bits and PC: memory, SP and the
\* other two registers are unchanged.  An STA, STX or STY that completes sets
\* the cell at the resolved operand address to the source register, changes
\* no other cell, and leaves A, X, Y, status and SP unchanged.
C15_HandlersChangeOnlyTheirTargets ==
    [][(Fetching /\ phase' # "Panicked") =>
          /\ InsAtPc \in RegisterProducing =>
                /\ OthersUnchanged(InsAtPc)
                /\ UNCHANGED <<memory, stack_pointer>>
                /\ OtherBits(status') = OtherBits(status)
          /\ InsAtPc \in Stores =>
                /\ memory' = Store(memory, StoreAddress,
                                   Source(InsAtPc, register_a, register_x, register_y))
                /\ UNCHANGED <<register_a, register_x, register_y, status,
                               stack_pointer>>]_vars

\* STA $01,X with A = $80 and X = 9 has stored $80 in the cell $0A, and the
\* status the host had assigned is as it was
C15_Witness ==
    /\ fetched.op = \h95
    /\ Cell(memory, fetched.at + 1) = \h01
    /\ register_a = \h80
    /\ register_x = \h09
    /\ Cell(memory, \h0A) = \h80
    /\ status = \h7D
    /\ phase = "Running"

-----------------------------------------------------------------------------
(* C16 *)

\* C16: INX never fails and sets X to (X + 1) mod 256, with Zero set iff the
\* new X is 0 and Negative set iff its bit 7 is set: from $FF it gives $00
\* with Zero set and Negative clear, and from $00 it gives $01 with both clear.
C16_InxWraps ==
    [][(Fetching /\ InsAtPc = "INX") =>
          /\ phase' # "Panicked"
          /\ register_x' = (register_x + 1) % 256
          /\ ZeroFlag(status') <=> (register_x = 255)
          /\ NegativeFlag(status') <=> (register_x \in 127..254)]_vars

\* the sweep has taken X through $FF (the cell $FF holds the $FF that STA
\* $00,X stored there), INX has wrapped it to 0, and the next INX has given 1
\* with both flags clear
C16_Witness ==
    /\ fetched.op = \hE8
    /\ Cell(memory, \hFF) = \hFF
    /\ register_x = \h01
    /\ ~ZeroFlag(status)
    /\ ~NegativeFlag(status)
    /\ phase = "Running"

-----------------------------------------------------------------------------
(* C17 *)

\* the little-endian word in the two bytes after the opcode at PC
OperandWord == OperandByte + 256 * Cell(memory, program_counter + 2)

\* the cells whose value the step changes
ChangedCells == {a \in DOMAIN memory \cup DOMAIN memory' : Cell(memory', a) # Cell(memory, a)}

\* C17: a JSR at address p with operand word w sets PC to w, pushes the two
\* bytes of the return address p + 2 (the only bytes it writes), and lowers
\* SP by 2.
C17_JsrJumpsToItsOperand ==
    [][(Fetching /\ InsAtPc = "JSR" /\ phase' # "Panicked") =>
          /\ program_counter' = OperandWord
          /\ \A a \in ChangedCells :
                Cell(memory', a) \in {LoByte(program_counter + 2), HiByte(program_counter + 2)}
          /\ stack_pointer' = (stack_pointer - 2) % 256]_vars

-----------------------------------------------------------------------------
(* C18 *)

\* the return address the JSR just executed pushed: its own address plus 2
PushedReturnAddress == (fetched.at + 2) % U16

\* C18: an RTS that follows a JSR pops the two bytes lo and hi of the return
\* address that JSR pushed and sets PC to ((hi << 8) | lo) + 1 modulo 65536;
\* SP rises by 2 and nothing else changes.
C18_RtsReturnsPastTheCall ==
    [][(Fetching /\ InsAtPc = "RTS" /\ fetched.op = \h20) =>
          LET lo == LoByte(PushedReturnAddress)
              hi == HiByte(PushedReturnAddress)
          IN  /\ phase' # "Panicked"
              /\ program_counter' = (hi * 256 + lo + 1) % U16
              /\ stack_pointer' = (stack_pointer + 2) % 256
              /\ UNCHANGED <<register_a, register_x, register_y, status, memory>>]_vars

-----------------------------------------------------------------------------
(* C19 *)

\* bytes to push
StackBytes == {\h01, \h80}

\* C19: in every state of the CPU, stack_push(b) followed by stack_pop()
\* returns b and restores SP, and after stack_push(b1), stack_push(b2) two
\* pops return b2 and then b1 (where none of the calls panics).
C19_StackIsLifo ==
    \A b1, b2 \in StackBytes :
        LET one    == stack_pop(stack_push(CpuNow, b1))
            first  == stack_pop(stack_push(stack_push(CpuNow, b1), b2))
            second == stack_pop(first)
        IN  /\ Ok(one) => one.ret = b1 /\ one.sp = stack_pointer
            /\ Ok(second) => first.ret = b2 /\ second.ret = b1 /\ second.sp = stack_pointer

-----------------------------------------------------------------------------
(* C20 *)

\* the base 0x0100 of the stack page (stack_location)
StackPage == 256

ZeroPage == 0..\hFF

\* C20: a JSR or RTS that completes changes no zero-page cell, and the two
\* bytes a JSR pushes are in the cells 0x0100 + SP and 0x0100 + (SP - 1).
C20_StackStaysInItsPage ==
    [][(Fetching /\ InsAtPc \in {"JSR", "RTS"} /\ phase' # "Panicked") =>
          /\ \A a \in ZeroPage : Cell(memory', a) = Cell(memory, a)
          /\ InsAtPc = "JSR" =>
                {Cell(memory', StackPage + stack_pointer),
                 Cell(memory', StackPage + ((stack_pointer - 1) % 256))}
                    = {LoByte(program_counter + 2), HiByte(program_counter + 2)}]_vars

-----------------------------------------------------------------------------
(* C21 *)

\* the operand size the spec gives for a mode (Implied is NoneAddressing)
operandSize(mode) ==
    CASE mode \in {"Immediate", "ZeroPage", "ZeroPage_X", "ZeroPage_Y",
                   "Indirect", "Indirect_X", "Indirect_Y"} -> 1
      [] mode \in {"Absolute", "Absolute_X", "Absolute_Y"} -> 2
      [] mode = "NoneAddressing" -> 0

ControlTransfer == {"JMP", "JSR", "RTS", "BRK"}

\* the CPU at the point where the handler resolves its operand: the opcode
\* has been fetched and PC is at the operand
AtOperand == [CpuNow EXCEPT !.pc = (program_counter + 1) % U16]

\* resolving the operand address in this mode, where it does not panic,
\* returns an address and changes nothing of the CPU
ResolvingChangesNothing(mode) ==
    Ok(get_operand_address(AtOperand, mode)) =>
        Return(get_operand_address(AtOperand, mode), 0) = AtOperand

\* C21: an instruction other than JMP, JSR, RTS and the halt that executes at
\* address p in the mode m of its opcode leaves PC = p + 1 + operandSize(m),
\* and resolving its operand address changes no state.
C21_PcAdvancesByOperandSize ==
    [][(Fetching /\ Supported(OpAtPc) /\ InsAtPc \notin ControlTransfer) =>
          /\ phase' # "Panicked" =>
                program_counter' = program_counter + 1 + operandSize(ModeAtPc)
          /\ ModeAtPc # "NoneAddressing" => ResolvingChangesNothing(ModeAtPc)]_vars

\* LDA $0010 at $8000, an instruction with a two-byte operand, has left PC at
\* $8003
C21_Witness ==
    /\ fetched.op = \hAD
    /\ fetched.at = \h8000
    /\ Cell(memory, \h8001) = \h10
    /\ program_counter = \h8003
    /\ phase = "Running"

-----------------------------------------------------------------------------
(* C22 *)

\* load_and_run of LDA #$C0; TAX; INX; BRK has halted at its 0x00
FiveOpsHalted ==
    /\ phase = "Halted"
    /\ calls = 3
    /\ fetched = [op |-> \h00, at |-> \h8004, sp |-> StackPointerInit]
    /\ Cell(memory, \h8000) = \hA9
    /\ Cell(memory, \h8001) = \hC0
    /\ Cell(memory, \h8002) = \hAA
    /\ Cell(memory, \h8003) = \hE8

\* C22: when the loop fetches the opcode 0x00 at address p the run ends with
\* PC = p + 1 and no register, flag, SP or memory cell changed; after that no
\* instruction is fetched (the next step, if any, is a call of the host); and
\* the instructions before the halt have taken effect in program order (LDA
\* #$C0; TAX; INX halts with A = $C0, X = $C1, Negative set, Zero clear).
C22_HaltEndsTheRun ==
    [][/\ (Fetching /\ OpAtPc = \h00) =>
             /\ phase' = "Halted"
             /\ program_counter' = program_counter + 1
             /\ RegistersAndMemoryUnchanged
       /\ phase = "Halted" =>
             /\ calls' = calls + 1
             /\ fetched' = fetched
       /\ FiveOpsHalted =>
             /\ register_a = \hC0
             /\ register_x = \hC1
             /\ NegativeFlag(status)
             /\ ~ZeroFlag(status)]_vars

\* the run of test_jmp_abs has ended at the 0x00 in cell 1 with PC = 2, and
\* the CPU is otherwise as reset() left it
C22_Witness ==
    /\ phase = "Halted"
    /\ fetched = [op |-> \h00, at |-> \h01, sp |-> StackPointerInit]
    /\ Cell(memory, \h8000) = \h4C
    /\ program_counter = \h02
    /\ register_a = 0
    /\ status = 0
    /\ stack_pointer = StackPointerInit

====
